---------------------------- MODULE Spec2Model ----------------------------
(***************************************************************************)
(* Model of cxx::binder<K, V> (src/binder.h): a copy-on-write ordered      *)
(* key-value container.  A binder (Handle) holds a shared_ptr to a data_t  *)
(* (Snapshot) and the flag `unsharable`.  A data_t owns a std::list of     *)
(* (const K*, V) nodes and a std::map from K to list iterators.            *)
(*                                                                         *)
(* Addresses are modelled explicitly:                                      *)
(*   - a data_t lives at a heap address (SnapIds); 0 is nullptr;           *)
(*   - a std::list iterator is the current position of the node it       *)
(*     designates: inserting or erasing a node in front of it moves every  *)
(*     stored iterator along with its node; -1 is an iterator whose node   *)
(*     was erased;                                                         *)
(*   - a key pointer const K* is the pair (data_t address, key) of the     *)
(*     map node it points to; NullKey is nullptr.                          *)
(* std::shared_ptr::use_count is the number of binders that hold the       *)
(* address; a data_t with no owner is destroyed.                           *)
(* A V& returned by the non-const read() and kept by the caller is an      *)
(* element of `refs`: the data_t address and the key of the node whose     *)
(* value it refers to.  The caller may write through it while that node    *)
(* exists.                                                                 *)
(*                                                                         *)
(* Every member function is an operator from the state it is called in to  *)
(* the outcome of the call: res is "ok" or what() of the exception thrown, *)
(* the other fields are the state the call leaves.  The action of a call   *)
(* installs its outcome.                                                   *)
(***************************************************************************)
EXTENDS Integers, Sequences, FiniteSets, TLC

\* binders (object slots) of the program
NumHandles == 2
\* keys a call may be made with: 1..MaxKey
MaxKey == 3
\* keys the explored callers insert: 1..MaxInserted; the outcome of a call
\* is examined for every key of 1..MaxKey in every state they reach
MaxInserted == 2
MaxVal == 2
\* references returned by read() that the caller holds at a time
MaxRefs == 1

Handles == 1..NumHandles
Keys == 1..MaxKey
InsertedKeys == 1..MaxInserted
Vals == 1..MaxVal
\* one more address than binders: operator= holds its by-value parameter too
SnapIds == 1..(NumHandles + 1)
\* index of the fallible step (allocation) of a call that throws; 0: none
FailPoints == 0..(MaxInserted + 3)

VARIABLES alive, data, unsharable, heap, refs

vars == <<alive, data, unsharable, heap, refs>>

NullKey == [sid |-> 0, key |-> 0]

\* data_t() = default: empty notes, empty index (0: key absent)
EmptyData == [notes |-> <<>>, index |-> [k \in Keys |-> 0]]

----------------------------------------------------------------------------
(* std::list / std::map primitives on one data_t value *)

Contains(s, k) == s.index[k] # 0

InsertAt(seq, pos, x) ==
    [i \in 1..(Len(seq) + 1) |->
        IF i < pos THEN seq[i] ELSE IF i = pos THEN x ELSE seq[i - 1]]

EraseAt(seq, pos) ==
    [i \in 1..(Len(seq) - 1) |-> IF i < pos THEN seq[i] ELSE seq[i + 1]]

\* notes.insert(it, make_pair(nullptr, v)) with it at position pos; the new
\* node is at pos afterwards; emplace_front is pos = 1
NotesInsert(s, pos, v) ==
    [notes |-> InsertAt(s.notes, pos, [kp |-> NullKey, v |-> v]),
     index |-> [k \in Keys |-> IF s.index[k] >= pos THEN s.index[k] + 1 ELSE s.index[k]]]

\* notes.erase(it) with it at position pos; pop_front is pos = 1
NotesErase(s, pos) ==
    [notes |-> EraseAt(s.notes, pos),
     index |-> [k \in Keys |-> IF s.index[k] > pos THEN s.index[k] - 1
                               ELSE IF s.index[k] = pos THEN -1 ELSE s.index[k]]]

\* it->first = &index.emplace(k, it).first->first   (sid: address of this
\* data_t, pos: position of it); emplace leaves an existing entry as it is
IndexEmplace(s, sid, k, pos) ==
    [notes |-> [s.notes EXCEPT ![pos].kp = [sid |-> sid, key |-> k]],
     index |-> IF s.index[k] = 0 THEN [s.index EXCEPT ![k] = pos] ELSE s.index]

\* index.erase(it_index)
IndexErase(s, k) == [s EXCEPT !.index[k] = 0]

\* the list holds a node whose key pointer is kp
HasNode(s, kp) == \E i \in 1..Len(s.notes) : s.notes[i].kp = kp

NodePos(s, kp) == CHOOSE i \in 1..Len(s.notes) : s.notes[i].kp = kp

----------------------------------------------------------------------------
(* reading through pointers *)

\* *kp : the key a const K* designates; 0 for nullptr, -1 if the map node is gone
DerefKey(hp, kp) ==
    IF kp.sid = 0 THEN 0
    ELSE IF hp[kp.sid].index[kp.key] # 0 THEN kp.key ELSE -1

UseCount(d, sid) == Cardinality({h \in Handles : d[h] = sid})

Owned(d, sid) == \E h \in Handles : d[h] = sid

\* address returned by the allocator for a new data_t: one that is not in use
NewSid(d) == CHOOSE s \in SnapIds :
                /\ ~Owned(d, s)
                /\ \A t \in SnapIds : ~Owned(d, t) => s <= t

\* what a caller observes of binder h by iterating cbegin()..cend(): the keys
\* and values in order
ViewOf(d, hp, h) ==
    IF d[h] = 0 THEN <<>>
    ELSE [i \in 1..Len(hp[d[h]].notes) |->
            <<DerefKey(hp, hp[d[h]].notes[i].kp), hp[d[h]].notes[i].v>>]

View(h) == ViewOf(data, heap, h)

\* binder::size()
SizeOf(d, hp, h) == IF d[h] = 0 THEN 0 ELSE Len(hp[d[h]].notes)

size(h) == SizeOf(data, heap, h)

----------------------------------------------------------------------------
(* data_t copy constructor, going_to_edit, successful_edit *)

RECURSIVE RebuildIndex(_, _, _, _)
\* the loop of data_t(const data_t&): each node's key is read through its old
\* key pointer, emplaced in the new index, and the pointer is redirected
RebuildIndex(hp, s, new, i) ==
    IF i > Len(s.notes) THEN s
    ELSE RebuildIndex(hp,
                      IndexEmplace(s, new, DerefKey(hp, s.notes[i].kp), i),
                      new, i + 1)

\* a member-wise copy: the nodes keep the key pointers of the source, which
\* point into the index of the source
data_t_copy_memberwise(hp, src, new, fa) ==
    [ok |-> TRUE, snap |-> hp[src]]

\* data_t(const data_t &other) building the object at address `new`, with the
\* fa-th fallible step throwing (1: allocation and notes(other.notes);
\* 1 + i: the i-th index.emplace; anything else: none).  A throw in the loop
\* is caught, notes and index are cleared, and the exception is rethrown.
data_t_copy(hp, src, new, fa) ==
    LET n      == Len(hp[src].notes)
        copied == [notes |-> hp[src].notes, index |-> EmptyData.index]
    IN IF fa >= 1 /\ fa <= n + 1
       THEN [ok |-> FALSE, snap |-> EmptyData]
       ELSE [ok |-> TRUE, snap |-> RebuildIndex(hp, copied, new, 1)]

\* going_to_edit without the copy: the edit is always applied in place
going_to_edit_in_place(d, hp, h, fa) ==
    [ok |-> TRUE, sid |-> d[h], hp |-> hp, steps |-> 0]

\* going_to_edit that copies whether or not the data_t is shared
going_to_edit_always(d, hp, h, fa) ==
    LET new == NewSid(d)
        c   == data_t_copy(hp, d[h], new, fa)
    IN [ok |-> c.ok, sid |-> new,
        hp |-> IF c.ok THEN [hp EXCEPT ![new] = c.snap] ELSE hp,
        steps |-> 1 + Len(hp[d[h]].notes)]

\* binder::going_to_edit: the data_t the edit is applied to.  steps is the
\* number of fallible steps it ran through.
going_to_edit(d, hp, h, fa) ==
    IF UseCount(d, d[h]) > 1
    THEN LET new == NewSid(d)
             c   == data_t_copy(hp, d[h], new, fa)
         IN [ok |-> c.ok, sid |-> new,
             hp |-> IF c.ok THEN [hp EXCEPT ![new] = c.snap] ELSE hp,
             steps |-> 1 + Len(hp[d[h]].notes)]
    ELSE [ok |-> TRUE, sid |-> d[h], hp |-> hp, steps |-> 0]

\* binder::successful_edit
successful_edit(d, u, h, sid) ==
    [data |-> [d EXCEPT ![h] = sid], unsharable |-> [u EXCEPT ![h] = FALSE]]

----------------------------------------------------------------------------
(* outcome of a call *)

\* End of a call that ends as res: shared_ptr destroys every data_t left
\* without an owner, and a reference kept by the caller is usable only while
\* its node exists.
Outcome(d, u, hp, rf, r) ==
    [res |-> r, data |-> d, unsharable |-> u,
     heap |-> [s \in SnapIds |-> IF Owned(d, s) THEN hp[s] ELSE EmptyData],
     refs |-> {x \in rf : Owned(d, x.sid) /\ HasNode(hp[x.sid], x)}]

\* the call threw before it changed anything
Throw(r) == Outcome(data, unsharable, heap, refs, r)

Apply(o) ==
    /\ data' = o.data
    /\ unsharable' = o.unsharable
    /\ heap' = o.heap
    /\ refs' = o.refs

TypeOK ==
    /\ alive \in [Handles -> BOOLEAN]
    /\ data \in [Handles -> SnapIds \cup {0}]
    /\ unsharable \in [Handles -> BOOLEAN]
    /\ \A s \in SnapIds :
          /\ heap[s].index \in [Keys -> 0..MaxKey]
          /\ Len(heap[s].notes) <= MaxInserted
    /\ refs \subseteq [sid : SnapIds, key : Keys]

Init ==
    /\ alive = [h \in Handles |-> FALSE]
    /\ data = [h \in Handles |-> 0]
    /\ unsharable = [h \in Handles |-> FALSE]
    /\ heap = [s \in SnapIds |-> EmptyData]
    /\ refs = {}

----------------------------------------------------------------------------
(* constructors, destructor, assignment *)

\* binder() = default
Construct(h) ==
    /\ ~alive[h]
    /\ alive' = [alive EXCEPT ![h] = TRUE]
    /\ Apply(Outcome([data EXCEPT ![h] = 0], [unsharable EXCEPT ![h] = FALSE],
                     heap, refs, "ok"))

\* ~binder(): the shared_ptr member releases its data_t
Destroy(h) ==
    /\ alive[h]
    /\ alive' = [alive EXCEPT ![h] = FALSE]
    /\ Apply(Outcome([data EXCEPT ![h] = 0], [unsharable EXCEPT ![h] = FALSE],
                     heap, refs, "ok"))

\* a copy constructor that shares the data_t whatever the flag of the source
CopyOf_shares(d, u, hp, s, fa) ==
    [ok |-> TRUE, data |-> d[s], unsharable |-> FALSE, hp |-> hp, steps |-> 0]

\* the new object's members after binder(const binder &other) ran on `other` = s
CopyOf(d, u, hp, s, fa) ==
    IF u[s] /\ d[s] # 0
    THEN LET new == NewSid(d)
             c   == data_t_copy(hp, d[s], new, fa)
         IN [ok |-> c.ok, data |-> new, unsharable |-> FALSE,
             hp |-> IF c.ok THEN [hp EXCEPT ![new] = c.snap] ELSE hp,
             steps |-> 1 + Len(hp[d[s]].notes)]
    ELSE [ok |-> TRUE, data |-> d[s], unsharable |-> FALSE, hp |-> hp, steps |-> 0]

\* a move constructor that copies the pointer and leaves the source holding it
MoveOf_keeps(d, u, s) ==
    [data |-> d[s], unsharable |-> u[s], src |-> d]

\* binder(binder &&other) on `other` = s: data is moved from, the flag is copied
MoveOf(d, u, s) ==
    [data |-> d[s], unsharable |-> u[s], src |-> [d EXCEPT ![s] = 0]]

\* binder c(s);   with the f-th fallible step throwing (0: none)
copy_construct(c, s, f) ==
    LET o == CopyOf(data, unsharable, heap, s, f)
    IN IF ~o.ok THEN Throw("bad_alloc")
       ELSE Outcome([data EXCEPT ![c] = o.data],
                    [unsharable EXCEPT ![c] = o.unsharable], o.hp, refs, "ok")

\* binder c(std::move(s));
move_construct(c, s) ==
    LET o == MoveOf(data, unsharable, s)
    IN Outcome([o.src EXCEPT ![c] = o.data],
               [unsharable EXCEPT ![c] = o.unsharable], heap, refs, "ok")

\* binder &operator=(binder other) once `other` holds odata: swap, clear the
\* flag; `other` is destroyed on return and releases what t held
operator_assign(d, u, t, odata) ==
    [data |-> [d EXCEPT ![t] = odata], unsharable |-> [u EXCEPT ![t] = FALSE]]

\* t = s;   the parameter is copy-constructed from s (s may be t itself)
copy_assign(t, s, f) ==
    LET o == CopyOf(data, unsharable, heap, s, f)
        a == operator_assign(data, unsharable, t, o.data)
    IN IF ~o.ok THEN Throw("bad_alloc")
       ELSE Outcome(a.data, a.unsharable, o.hp, refs, "ok")

\* t = std::move(s);   the parameter is move-constructed from s
move_assign(t, s) ==
    LET o == MoveOf(data, unsharable, s)
        a == operator_assign(o.src, unsharable, t, o.data)
    IN Outcome(a.data, a.unsharable, heap, refs, "ok")

\* binder::clear
clear(h) ==
    Outcome([data EXCEPT ![h] = 0], [unsharable EXCEPT ![h] = FALSE], heap, refs, "ok")

\* fallible steps of copying s: none unless the copy constructor clones
CopyFails(s) == 0..CopyOf(data, unsharable, heap, s, 0).steps

CopyConstruct(c, s, f) ==
    /\ ~alive[c] /\ alive[s]
    /\ f \in CopyFails(s)
    /\ LET o == copy_construct(c, s, f)
       IN /\ alive' = [alive EXCEPT ![c] = (o.res = "ok")]
          /\ Apply(o)

MoveConstruct(c, s) ==
    /\ ~alive[c] /\ alive[s]
    /\ alive' = [alive EXCEPT ![c] = TRUE]
    /\ Apply(move_construct(c, s))

CopyAssign(t, s, f) ==
    /\ alive[t] /\ alive[s]
    /\ f \in CopyFails(s)
    /\ UNCHANGED alive
    /\ Apply(copy_assign(t, s, f))

MoveAssign(t, s) ==
    /\ alive[t] /\ alive[s]
    /\ UNCHANGED alive
    /\ Apply(move_assign(t, s))

Clear(h) ==
    /\ alive[h]
    /\ UNCHANGED alive
    /\ Apply(clear(h))

----------------------------------------------------------------------------
(* insert_front, insert_after, remove, read *)

\* a catch block that rethrows without unlinking the node
rollback_missing(t, it) == t

\* catch (...) { new_data->notes.pop_front() / erase(it); throw; }
rollback(t, it) == NotesErase(t, it)

\* the position of prev_k's node itself: the new node is linked before it
after_prev_before(s, pk) == s.index[pk]

\* std::next(prev_it->second) for prev_it = index.find(prev_k)
after_prev(s, pk) == s.index[pk] + 1

\* the precondition checks of insert_after made in the other order
insert_after_check_swapped(h, pk, k) ==
    IF data[h] # 0 /\ Contains(heap[data[h]], k) THEN "Key already exists"
    ELSE IF data[h] = 0 \/ ~Contains(heap[data[h]], pk) THEN "Prev_key not found"
    ELSE "ok"

\* the precondition checks of insert_after, in the order they are made
insert_after_check(h, pk, k) ==
    IF data[h] = 0 \/ ~Contains(heap[data[h]], pk) THEN "Prev_key not found"
    ELSE IF Contains(heap[data[h]], k) THEN "Key already exists"
    ELSE "ok"

\* b.insert_front(k, v) with the f-th fallible step throwing std::bad_alloc
\* (0: none).  Fallible steps in order: make_shared<data_t>() (only when data
\* is null), those of going_to_edit, notes.emplace_front, index.emplace.
insert_front(h, k, v, f) ==
    LET mk  == data[h] = 0
        d1  == IF mk THEN [data EXCEPT ![h] = NewSid(data)] ELSE data
        hp1 == IF mk THEN [heap EXCEPT ![NewSid(data)] = EmptyData] ELSE heap
        f1  == IF mk THEN f - 1 ELSE f
        g   == going_to_edit(d1, hp1, h, f1)
        f2  == f1 - g.steps
        t1  == NotesInsert(g.hp[g.sid], 1, v)
        t2  == IndexEmplace(t1, g.sid, k, 1)
        rb  == rollback(t1, 1)
        e   == successful_edit(d1, unsharable, h, g.sid)
    IN IF data[h] # 0 /\ Contains(heap[data[h]], k) THEN Throw("Key already exists")
       ELSE IF mk /\ f = 1 THEN Throw("bad_alloc")
       ELSE IF ~g.ok \/ f2 = 1 THEN Outcome(d1, unsharable, g.hp, refs, "bad_alloc")
       ELSE IF f2 = 2
            THEN Outcome(d1, unsharable, [g.hp EXCEPT ![g.sid] = rb], refs, "bad_alloc")
       ELSE Outcome(e.data, e.unsharable, [g.hp EXCEPT ![g.sid] = t2], refs, "ok")

\* b.insert_after(prev_k, k, v).  Fallible steps: those of going_to_edit,
\* notes.insert, index.emplace.
insert_after(h, pk, k, v, f) ==
    LET g   == going_to_edit(data, heap, h, f)
        f2  == f - g.steps
        tgt == g.hp[g.sid]
        it  == after_prev(tgt, pk)
        t1  == NotesInsert(tgt, it, v)
        t2  == IndexEmplace(t1, g.sid, k, it)
        rb  == rollback(t1, it)
        e   == successful_edit(data, unsharable, h, g.sid)
    IN IF insert_after_check(h, pk, k) # "ok" THEN Throw(insert_after_check(h, pk, k))
       ELSE IF ~g.ok \/ f2 = 1 THEN Outcome(data, unsharable, g.hp, refs, "bad_alloc")
       ELSE IF f2 = 2
            THEN Outcome(data, unsharable, [g.hp EXCEPT ![g.sid] = rb], refs, "bad_alloc")
       ELSE Outcome(e.data, e.unsharable, [g.hp EXCEPT ![g.sid] = t2], refs, "ok")

\* b.remove(k).  Fallible steps: those of going_to_edit.
remove_key(h, k, f) ==
    LET g   == going_to_edit(data, heap, h, f)
        tgt == g.hp[g.sid]
        t2  == NotesErase(IndexErase(tgt, k), tgt.index[k])
        e   == successful_edit(data, unsharable, h, g.sid)
    IN IF data[h] = 0 \/ ~Contains(heap[data[h]], k) THEN Throw("Key not found")
       ELSE IF ~g.ok THEN Outcome(data, unsharable, g.hp, refs, "bad_alloc")
       ELSE Outcome(e.data, e.unsharable, [g.hp EXCEPT ![g.sid] = t2], refs, "ok")

\* b.remove(): remove(*data->notes.front().first) unless size() == 0
remove_first(h, f) ==
    IF size(h) = 0 THEN Throw("Empty binder")
    ELSE remove_key(h, DerefKey(heap, heap[data[h]].notes[1].kp), f)

\* the reference V &b.read(k) returns: it_index->second->second in the
\* data_t the binder holds after the call, named by the node's key pointer
read_ref(h, k) ==
    LET g   == going_to_edit(data, heap, h, 0)
        tgt == g.hp[g.sid]
    IN tgt.notes[tgt.index[k]].kp

\* a read that does not set the flag after successful_edit
read_noflag(h, k, f, keep) ==
    LET g == going_to_edit(data, heap, h, f)
        e == successful_edit(data, unsharable, h, g.sid)
    IN IF data[h] = 0 \/ ~Contains(heap[data[h]], k) THEN Throw("Key not found")
       ELSE IF ~g.ok THEN Outcome(data, unsharable, g.hp, refs, "bad_alloc")
       ELSE Outcome(e.data, e.unsharable, g.hp,
                    IF keep THEN refs \cup {read_ref(h, k)} ELSE refs, "ok")

\* V &b.read(k); keep: the caller holds on to the returned reference
read(h, k, f, keep) ==
    LET g == going_to_edit(data, heap, h, f)
        e == successful_edit(data, unsharable, h, g.sid)
    IN IF data[h] = 0 \/ ~Contains(heap[data[h]], k) THEN Throw("Key not found")
       ELSE IF ~g.ok THEN Outcome(data, unsharable, g.hp, refs, "bad_alloc")
       ELSE Outcome(e.data, [e.unsharable EXCEPT ![h] = TRUE], g.hp,
                    IF keep THEN refs \cup {read_ref(h, k)} ELSE refs, "ok")

\* const V &b.read(k) const: the outcome and the value read (0 when it throws)
const_read(h, k) ==
    IF data[h] = 0 \/ ~Contains(heap[data[h]], k)
    THEN [out |-> Throw("Key not found"), val |-> 0]
    ELSE LET s == heap[data[h]]
         IN [out |-> Outcome(data, unsharable, heap, refs, "ok"),
             val |-> s.notes[s.index[k]].v]

\* the caller assigns v through a reference r it kept from read(), in the
\* state (d, u, hp, rf)
write_in(d, u, hp, rf, r, v) ==
    Outcome(d, u, [hp EXCEPT ![r.sid].notes[NodePos(hp[r.sid], r)].v = v], rf, "ok")

write_ref(r, v) == write_in(data, unsharable, heap, refs, r, v)

\* number of fallible steps of going_to_edit on h
EditSteps(h) == going_to_edit(data, heap, h, 0).steps

\* The fallible steps of each call, 0 for "none throws": a rejected call has
\* none; insert_front allocates the data_t of an empty binder, then links the
\* node and emplaces the key; the others run going_to_edit first.
FrontFails(h, k) ==
    0..(IF data[h] = 0 THEN 3
        ELSE IF Contains(heap[data[h]], k) THEN 0 ELSE EditSteps(h) + 2)

AfterFails(h, pk, k) ==
    0..(IF insert_after_check(h, pk, k) = "ok" THEN EditSteps(h) + 2 ELSE 0)

RemoveFails(h, k) ==
    0..(IF data[h] # 0 /\ Contains(heap[data[h]], k) THEN EditSteps(h) ELSE 0)

FirstFails(h) == 0..(IF size(h) = 0 THEN 0 ELSE EditSteps(h))

InsertFront(h, k, v, f) ==
    /\ alive[h]
    /\ f \in FrontFails(h, k)
    /\ UNCHANGED alive
    /\ Apply(insert_front(h, k, v, f))

InsertAfter(h, pk, k, v, f) ==
    /\ alive[h]
    /\ f \in AfterFails(h, pk, k)
    /\ UNCHANGED alive
    /\ Apply(insert_after(h, pk, k, v, f))

RemoveKey(h, k, f) ==
    /\ alive[h]
    /\ f \in RemoveFails(h, k)
    /\ UNCHANGED alive
    /\ Apply(remove_key(h, k, f))

RemoveFirst(h, f) ==
    /\ alive[h]
    /\ f \in FirstFails(h)
    /\ UNCHANGED alive
    /\ Apply(remove_first(h, f))

\* the caller holds at most MaxRefs references at a time
Read(h, k, f, keep) ==
    /\ alive[h]
    /\ f \in RemoveFails(h, k)
    /\ keep => /\ Cardinality(refs) < MaxRefs
               /\ f = 0 /\ data[h] # 0 /\ Contains(heap[data[h]], k)
    /\ UNCHANGED alive
    /\ Apply(read(h, k, f, keep))

WriteRef(r, v) ==
    /\ r \in refs
    /\ UNCHANGED alive
    /\ Apply(write_ref(r, v))

ConstRead(h, k) ==
    /\ alive[h]
    /\ UNCHANGED alive
    /\ Apply(const_read(h, k).out)

----------------------------------------------------------------------------
(* size and iteration *)

\* b.size() const noexcept leaves every member as it is
Size(h) ==
    /\ alive[h]
    /\ size(h) >= 0
    /\ UNCHANGED vars

\* const_iterator: the no-data iterator, or a position in the notes of a data_t
cbegin(h) ==
    IF data[h] = 0 THEN [null_data |-> TRUE, sid |-> 0, pos |-> 0]
    ELSE [null_data |-> FALSE, sid |-> data[h], pos |-> 1]

cend(h) ==
    IF data[h] = 0 THEN [null_data |-> TRUE, sid |-> 0, pos |-> 0]
    ELSE [null_data |-> FALSE, sid |-> data[h], pos |-> Len(heap[data[h]].notes) + 1]

\* an operator== that returns true as soon as one side is the no-data iterator
IterEq_any_null(a, b) ==
    IF a.null_data \/ b.null_data THEN TRUE
    ELSE a.sid = b.sid /\ a.pos = b.pos

\* const_iterator::operator==
IterEq(a, b) ==
    IF a.null_data \/ b.null_data THEN a.null_data = b.null_data
    ELSE a.sid = b.sid /\ a.pos = b.pos

\* b.cbegin(), b.cend() const noexcept leave every member as it is
Iterate(h) ==
    /\ alive[h]
    /\ IterEq(cbegin(h), cbegin(h))
    /\ UNCHANGED vars

----------------------------------------------------------------------------

Next ==
    \/ \E h \in Handles : Construct(h)
    \/ \E h \in Handles : Destroy(h)
    \/ \E c, s \in Handles, f \in FailPoints : CopyConstruct(c, s, f)
    \/ \E c, s \in Handles : MoveConstruct(c, s)
    \/ \E t, s \in Handles, f \in FailPoints : CopyAssign(t, s, f)
    \/ \E t, s \in Handles : MoveAssign(t, s)
    \/ \E h \in Handles : Clear(h)
    \/ \E h \in Handles, k \in InsertedKeys, v \in Vals, f \in FailPoints :
          InsertFront(h, k, v, f)
    \/ \E h \in Handles, pk, k \in InsertedKeys, v \in Vals, f \in FailPoints :
          InsertAfter(h, pk, k, v, f)
    \/ \E h \in Handles, k \in InsertedKeys, f \in FailPoints : RemoveKey(h, k, f)
    \/ \E h \in Handles, f \in FailPoints : RemoveFirst(h, f)
    \/ \E h \in Handles, k \in InsertedKeys, f \in FailPoints, keep \in BOOLEAN :
          Read(h, k, f, keep)
    \/ \E r \in refs, v \in Vals : WriteRef(r, v)
    \/ \E h \in Handles, k \in InsertedKeys : ConstRead(h, k)
    \/ \E h \in Handles : Size(h)
    \/ \E h \in Handles : Iterate(h)

Spec == Init /\ [][Next]_vars

----------------------------------------------------------------------------
(* what the properties are stated with *)

Live == {h \in Handles : alive[h]}

\* what a caller observes of binder h after a call with outcome o
ViewAfter(o, h) == ViewOf(o.data, o.heap, h)

HasKey(view, k) == \E i \in 1..Len(view) : view[i][1] = k

KeyPos(view, k) == CHOOSE i \in 1..Len(view) : view[i][1] = k

\* P holds of the outcome of every insert_front, insert_after, remove(),
\* remove(k) and non-const read(k) that can be made on h, with any fallible
\* step throwing or none
AllEdits(h, P(_)) ==
    /\ \A k \in Keys, v \in Vals : \A f \in FrontFails(h, k) :
          P(insert_front(h, k, v, f))
    /\ \A pk, k \in Keys, v \in Vals : \A f \in AfterFails(h, pk, k) :
          P(insert_after(h, pk, k, v, f))
    /\ \A k \in Keys : \A f \in RemoveFails(h, k) : P(remove_key(h, k, f))
    /\ \A f \in FirstFails(h) : P(remove_first(h, f))
    /\ \A k \in Keys : \A f \in RemoveFails(h, k) : P(read(h, k, f, TRUE))


\* data_t s is at its address in both states and is the same in both
Untouched(o, s) == Owned(o.data, s) /\ o.heap[s] = heap[s]

----------------------------------------------------------------------------
(* C1 *)

\* the call with outcome o left every data_t that more than one binder holds
\* as it was, and every binder outside `acted` shows what it showed
Isolated(o, acted) ==
    /\ \A s \in SnapIds : UseCount(data, s) > 1 => Untouched(o, s)
    /\ \A g \in Live \ acted : ViewAfter(o, g) = View(g)

\* C1: snapshot isolation.  In every reachable state, whatever insert_front,
\* insert_after, remove(), remove(k), non-const read(k), clear() or assignment
\* is applied to a binder h, and however it ends, every data_t held by more
\* than one binder is left as it is, and every other binder (the source of a
\* copy assignment included) shows the same keys and values in the same order
\* as before the call.
C1_SnapshotIsolation ==
    \A h \in Live :
       /\ AllEdits(h, LAMBDA o : Isolated(o, {h}))
       /\ Isolated(clear(h), {h})
       /\ \A t \in Live : \A f \in CopyFails(t) : Isolated(copy_assign(h, t, f), {h})
       /\ \A t \in Live : Isolated(move_assign(h, t), {h, t})

\* two binders hold the same non-empty data_t, and an insert_front on one of
\* them succeeds: it shows the new entry and the other shows what it showed
C1_Witness ==
    \E a, b \in Live :
       /\ a # b /\ data[a] # 0 /\ data[a] = data[b] /\ size(a) > 0
       /\ \E k \in Keys, v \in Vals :
             LET o == insert_front(a, k, v, 0)
             IN /\ o.res = "ok"
                /\ ViewAfter(o, a) # View(a)
                /\ ViewAfter(o, b) = View(b)

----------------------------------------------------------------------------
(* C2 *)

\* after the call with outcome o every binder shows the same keys and values
\* in the same order, and has the same size, as before
SameViews(o) ==
    \A g \in Live : /\ ViewAfter(o, g) = View(g)
                    /\ SizeOf(o.data, o.heap, g) = size(g)

\* C2: strong exception safety.  When an allocation fails at any fallible step
\* of insert_front, insert_after, remove, non-const read or of copy
\* construction from h, then h and every other binder show the same keys and
\* values in the same order, and have the same size, as before the call.
C2_StrongExceptionSafety ==
    \A h \in Live :
       /\ AllEdits(h, LAMBDA o : o.res = "bad_alloc" => SameViews(o))
       /\ \A c \in Handles \ Live : \A f \in CopyFails(h) :
             copy_construct(c, h, f).res = "bad_alloc"
                => SameViews(copy_construct(c, h, f))

\* the index.emplace of an insert_front made in place on a non-empty data_t
\* throws after the node was linked in front
C2_Witness ==
    \E h \in Live, k \in Keys, v \in Vals :
       /\ data[h] # 0 /\ UseCount(data, data[h]) = 1 /\ size(h) >= 1
       /\ insert_front(h, k, v, 2).res = "bad_alloc"

----------------------------------------------------------------------------
(* C3 *)

\* C3: whenever insert_front, insert_after, remove(), remove(k) or non-const
\* read fails (the call is rejected or an allocation fails), the binder holds
\* the same data_t, or none, as before the call, and its flag is as before.
\* Stated of the step the failed call makes.
C3_FailureKeepsReference ==
    [][\A h \in Live :
          AllEdits(h, LAMBDA o : (o.res # "ok" /\ Apply(o))
                                    => /\ data'[h] = data[h]
                                       /\ unsharable'[h] = unsharable[h])]_vars

----------------------------------------------------------------------------
(* C4 *)

\* what() of the std::invalid_argument thrown, by the kind of error it reports
KeyAlreadyExists == {"Key already exists"}

KeyNotFound == {"Key not found", "Prev_key not found"}

EmptyContainer == {"Empty binder"}

\* the call with outcome o was rejected with an error of `kind`, and binder h
\* has the size and shows the keys and values in the order it did before
Rejected(o, h, kind) ==
    /\ o.res \in kind
    /\ ViewAfter(o, h) = View(h)
    /\ SizeOf(o.data, o.heap, h) = size(h)

\* rejections of insert_front, remove(k), read(k), read(k) const and remove(),
\* which binder.h makes as the specification states them
RejectedOneKey(h) ==
    /\ \A k \in Keys, v \in Vals :
          HasKey(View(h), k) => Rejected(insert_front(h, k, v, 0), h, KeyAlreadyExists)
    /\ \A k \in Keys :
          ~HasKey(View(h), k) =>
             /\ Rejected(remove_key(h, k, 0), h, KeyNotFound)
             /\ Rejected(read(h, k, 0, TRUE), h, KeyNotFound)
             /\ Rejected(const_read(h, k).out, h, KeyNotFound)
    /\ size(h) = 0 => Rejected(remove_first(h, 0), h, EmptyContainer)

\* C4 as claimed: insert_front or insert_after with a key already present
\* fails with key-already-exists; remove(k), read(k), const read(k) with k
\* absent and insert_after with prev_k absent fail with key-not-found; remove()
\* on a binder of size 0 fails with empty-container; the binder's size and
\* iteration order are as before the call.
C4_RejectedAsClaimed ==
    \A h \in Live :
       /\ RejectedOneKey(h)
       /\ \A pk, k \in Keys, v \in Vals :
             /\ HasKey(View(h), k) =>
                   Rejected(insert_after(h, pk, k, v, 0), h, KeyAlreadyExists)
             /\ ~HasKey(View(h), pk) =>
                   Rejected(insert_after(h, pk, k, v, 0), h, KeyNotFound)

\* C4 amended: as claimed, except that insert_after with k already present
\* fails with key-already-exists only when prev_k is present; with prev_k
\* absent it fails with key-not-found whether or not k is present.
C4_RejectedCalls ==
    \A h \in Live :
       /\ RejectedOneKey(h)
       /\ \A pk, k \in Keys, v \in Vals :
             /\ (HasKey(View(h), pk) /\ HasKey(View(h), k)) =>
                   Rejected(insert_after(h, pk, k, v, 0), h, KeyAlreadyExists)
             /\ ~HasKey(View(h), pk) =>
                   Rejected(insert_after(h, pk, k, v, 0), h, KeyNotFound)

\* a binder holds key k and not prev_k, insert_after(prev_k, k, v) is rejected
\* for prev_k; and another binder, emptied by removals, rejects remove()
C4_Witness ==
    \E h, g \in Live, pk, k \in Keys :
       /\ HasKey(View(h), k) /\ ~HasKey(View(h), pk)
       /\ insert_after(h, pk, k, 1, 0).res = "Prev_key not found"
       /\ data[g] # 0 /\ size(g) = 0
       /\ remove_first(g, 0).res = "Empty binder"

----------------------------------------------------------------------------
(* C5 *)

\* the value b.read(k) const returns for binder h in the state (d, hp)
ValueIn(d, hp, h, k) == hp[d[h]].notes[hp[d[h]].index[k]].v

\* the state a write of v through the kept reference r leaves, when made
\* after the call with outcome o
WriteAfter(o, r, v) == write_in(o.data, o.unsharable, o.heap, o.refs, r, v)

\* C5: copy construction c(s).  If s has its flag set (a non-const read on s
\* returned a reference) and holds a data_t, c holds a new data_t with the same
\* keys and values in the same order, c's flag is false, the data_t of s is
\* left as it is, and a write through a reference r into the data_t of s made
\* after the copy changes the value s reads under r's key and nothing of what c
\* shows.  If the flag of s is false, c holds the very data_t s holds and no
\* data_t is created.
C5_CopyConstruction ==
    \A s \in Live, c \in Handles \ Live :
       LET o == copy_construct(c, s, 0)
       IN /\ o.res = "ok"
          /\ (unsharable[s] /\ data[s] # 0) =>
                /\ o.data[c] # data[s]
                /\ ~Owned(data, o.data[c])
                /\ ViewAfter(o, c) = View(s)
                /\ ~o.unsharable[c]
                /\ Untouched(o, data[s])
                /\ \A r \in refs, v \in Vals :
                      r.sid = data[s] =>
                         LET w == WriteAfter(o, r, v)
                         IN /\ ValueIn(w.data, w.heap, s, r.key) = v
                            /\ ViewOf(w.data, w.heap, c) = View(s)
          /\ ~unsharable[s] =>
                /\ o.data[c] = data[s]
                /\ o.heap = heap

\* a binder with its flag set and a kept reference to a value of its data_t is
\* copied, and a write through the reference then changes the value it holds
C5_Witness ==
    \E s \in Live, c \in Handles \ Live, r \in refs, v \in Vals :
       /\ unsharable[s] /\ r.sid = data[s]
       /\ ValueIn(data, heap, s, r.key) # v
       /\ copy_construct(c, s, 0).res = "ok"
       /\ ValueIn(WriteAfter(copy_construct(c, s, 0), r, v).data,
                  WriteAfter(copy_construct(c, s, 0), r, v).heap, s, r.key) = v

----------------------------------------------------------------------------
(* C6 *)

\* C6: move construction d(std::move(s)) and move assignment d = std::move(s)
\* for d other than s.  After the call d holds the data_t s held before, d's
\* flag is the flag s had before, and s holds no data_t.  Stated of the step
\* the call makes.
C6_MoveTransfersFlag ==
    [][\A s \in Live : \A d \in Handles \ {s} :
          LET o == IF alive[d] THEN move_assign(d, s) ELSE move_construct(d, s)
          IN Apply(o) => /\ data'[d] = data[s]
                         /\ unsharable'[d] = unsharable[s]
                         /\ data'[s] = 0]_vars

----------------------------------------------------------------------------
(* C7 *)

\* the reference sequence of (key, value) pairs and its four operations
RefInsertFront(seq, k, v) == <<<<k, v>>>> \o seq

RefInsertAfter(seq, p, k, v) ==
    SubSeq(seq, 1, KeyPos(seq, p)) \o <<<<k, v>>>>
       \o SubSeq(seq, KeyPos(seq, p) + 1, Len(seq))

RefRemoveFirst(seq) == Tail(seq)

RefRemove(seq, k) == SelectSeq(seq, LAMBDA e : e[1] # k)

\* binder h shows seq and size() is its length, after the call with outcome o
Shows(o, h, seq) ==
    /\ ViewAfter(o, h) = seq
    /\ SizeOf(o.data, o.heap, h) = Len(seq)

\* C7: ordering refinement.  What iterating cbegin()..cend() of a binder
\* visits is a sequence of entries with distinct keys, size() is its length,
\* and every successful call takes it to the reference sequence of the call:
\* insert_front(k, v) prepends (k, v); insert_after(p, k, v) puts (k, v) right
\* after p's entry; remove() deletes the first entry; remove(k) deletes k's
\* entry and keeps the others in order; copy construction gives the copy the
\* sequence of the source and leaves the source's.  By induction on the calls
\* made, the view is the reference sequence after any sequence of them.
C7_OrderingRefinement ==
    \A h \in Live :
       LET seq == View(h)
       IN /\ size(h) = Len(seq)
          /\ \A i \in 1..Len(seq) : seq[i][1] \in Keys /\ seq[i][2] \in Vals
          /\ \A i, j \in 1..Len(seq) : seq[i][1] = seq[j][1] => i = j
          /\ \A k \in Keys, v \in Vals :
                insert_front(h, k, v, 0).res = "ok" =>
                   Shows(insert_front(h, k, v, 0), h, RefInsertFront(seq, k, v))
          /\ \A p, k \in Keys, v \in Vals :
                insert_after(h, p, k, v, 0).res = "ok" =>
                   Shows(insert_after(h, p, k, v, 0), h, RefInsertAfter(seq, p, k, v))
          /\ remove_first(h, 0).res = "ok" =>
                Shows(remove_first(h, 0), h, RefRemoveFirst(seq))
          /\ \A k \in Keys :
                remove_key(h, k, 0).res = "ok" =>
                   Shows(remove_key(h, k, 0), h, RefRemove(seq, k))
          /\ \A c \in Handles \ Live :
                /\ Shows(copy_construct(c, h, 0), c, seq)
                /\ Shows(copy_construct(c, h, 0), h, seq)

\* a binder shows two entries and an insert_after the first of them succeeds:
\* the new entry is the second of three
C7_Witness ==
    \E h \in Live, k \in Keys, v \in Vals :
       /\ size(h) = 2
       /\ insert_after(h, View(h)[1][1], k, v, 0).res = "ok"
       /\ ViewAfter(insert_after(h, View(h)[1][1], k, v, 0), h)[2] = <<k, v>>

----------------------------------------------------------------------------
(* C8 *)

\* the call with outcome o left binder h holding the data_t it held, with the
\* flag it had, and every data_t held by the binders that held it
SharingUnchanged(o, h) ==
    /\ o.data[h] = data[h]
    /\ o.unsharable[h] = unsharable[h]
    /\ \A s \in SnapIds :
          {g \in Handles : o.data[g] = s} = {g \in Handles : data[g] = s}

\* C8: effect of reads on the sharing state.  A successful non-const read(k)
\* leaves the binder's flag true and every binder showing the keys and values
\* in the order it showed.  The const read(k), whether it returns or throws,
\* leaves the data pointer of the binder, the set of binders that hold each
\* data_t and the flag as they were; size(), cbegin() and cend() are steps
\* that change no variable.
C8_ReadsAndSharing ==
    /\ [](\A h \in Live :
             /\ \A k \in Keys, keep \in BOOLEAN :
                   read(h, k, 0, keep).res = "ok" =>
                      /\ read(h, k, 0, keep).unsharable[h]
                      /\ SameViews(read(h, k, 0, keep))
             /\ \A k \in Keys : SharingUnchanged(const_read(h, k).out, h))
    /\ [][\A h \in Handles :
             (Size(h) \/ Iterate(h)) => UNCHANGED <<data, unsharable>>]_vars

\* a binder that shares its data_t with another makes a successful non-const
\* read, and a const read of an absent key throws
C8_Witness ==
    \E h, g \in Live, k, a \in Keys :
       /\ h # g /\ data[h] # 0 /\ data[h] = data[g] /\ ~unsharable[h]
       /\ read(h, k, 0, TRUE).res = "ok"
       /\ const_read(h, a).out.res = "Key not found"

----------------------------------------------------------------------------
(* C9 *)

\* C9: while the caller holds a reference returned by a non-const read into a
\* data_t (the node it refers to exists), copy construction from a binder
\* that holds this data_t gives the copy a data_t of its own, and no two
\* binders hold the data_t.
C9_EscapedNeverShared ==
    \A r \in refs :
       /\ UseCount(data, r.sid) <= 1
       /\ \A s \in Live, c \in Handles \ Live :
             data[s] = r.sid => copy_construct(c, s, 0).data[c] # r.sid

----------------------------------------------------------------------------
(* C10 *)

\* the call with outcome o worked on a new data_t: h holds an address that
\* was free, and the data_t h held, where it still exists, is as it was
OnClone(o, h) ==
    /\ o.data[h] # data[h]
    /\ ~Owned(data, o.data[h])
    /\ Owned(o.data, data[h]) => o.heap[data[h]] = heap[data[h]]

\* the call with outcome o was made on the data_t h held
InPlace(o, h) == o.data[h] = data[h]

\* C10 as claimed: a successful insert_front, insert_after, remove(),
\* remove(k) or non-const read on a binder whose data_t is held by more than
\* one binder or has the flag set works on a new data_t and leaves the old one
\* as it is; otherwise it is made in place.
C10_CloneIfSharedOrFlagged ==
    \A h \in Live :
       data[h] # 0 =>
          AllEdits(h, LAMBDA o :
             o.res = "ok" =>
                IF UseCount(data, data[h]) > 1 \/ unsharable[h]
                THEN OnClone(o, h) ELSE InPlace(o, h))

\* C10 amended: a successful insert_front, insert_after, remove(), remove(k)
\* or non-const read on a binder whose data_t is held by more than one binder
\* works on a new data_t (a copy with the entries in their order: after a
\* read the binder shows what it showed) and leaves the old one as it is,
\* held by the other binders; when the binder alone holds the data_t the call
\* is made in place, whether or not the flag is set.
C10_CloneIfShared ==
    \A h \in Live :
       data[h] # 0 =>
          /\ AllEdits(h, LAMBDA o :
                o.res = "ok" =>
                   IF UseCount(data, data[h]) > 1
                   THEN OnClone(o, h) /\ Untouched(o, data[h])
                   ELSE InPlace(o, h))
          /\ \A k \in Keys :
                read(h, k, 0, TRUE).res = "ok" =>
                   ViewAfter(read(h, k, 0, TRUE), h) = View(h)

\* a binder that alone holds its data_t and has the flag set makes a
\* successful insert_front in place, and a binder that shares its data_t
\* makes one on a new data_t
C10_Witness ==
    \E h, g \in Live, k \in Keys :
       /\ data[h] # 0 /\ UseCount(data, data[h]) = 1 /\ unsharable[h]
       /\ insert_front(h, k, 1, 0).res = "ok"
       /\ InPlace(insert_front(h, k, 1, 0), h)
       /\ insert_front(g, k, 1, 0).res = "ok"
       /\ OnClone(insert_front(g, k, 1, 0), g)

----------------------------------------------------------------------------
(* C11 *)

\* C11: in every state reached by constructions, copies, moves, assignments,
\* inserts, removes, reads and clears, a binder that has its flag set and
\* holds a data_t is the only binder that holds it; and so it is in the state
\* every copy construction from such a binder leaves.
C11_FlaggedIsUnique ==
    \A h \in Live :
       (unsharable[h] /\ data[h] # 0) =>
          /\ UseCount(data, data[h]) = 1
          /\ \A c \in Handles \ Live :
                UseCount(copy_construct(c, h, 0).data, data[h]) = 1

\* a binder with its flag set holds a data_t with entries, and another binder
\* holds a data_t of its own that shows the same entries
C11_Witness ==
    \E h, g \in Live :
       /\ h # g /\ unsharable[h] /\ data[h] # 0 /\ size(h) > 0
       /\ data[g] # 0 /\ data[g] # data[h]
       /\ View(g) = View(h)

----------------------------------------------------------------------------
(* C12 *)

\* index and notes of the data_t at address s of heap hp are in bijection:
\* every index entry is the position of a node of this list whose key pointer
\* points to that entry, and every node's key pointer points to the entry of
\* this index that holds the node's position
Bijective(hp, s) ==
    LET t == hp[s]
    IN /\ \A k \in Keys :
             t.index[k] # 0 =>
                /\ t.index[k] \in 1..Len(t.notes)
                /\ t.notes[t.index[k]].kp = [sid |-> s, key |-> k]
       /\ \A i \in 1..Len(t.notes) :
             /\ t.notes[i].kp.sid = s
             /\ t.notes[i].kp.key \in Keys
             /\ t.index[t.notes[i].kp.key] = i
       /\ \A i, j \in 1..Len(t.notes) :
             DerefKey(hp, t.notes[i].kp) = DerefKey(hp, t.notes[j].kp) => i = j

\* every data_t a binder holds after the call with outcome o
AllBijective(o) ==
    \A s \in SnapIds : Owned(o.data, s) => Bijective(o.heap, s)

\* C12: bijection invariant.  In every data_t held by a binder, in every
\* reachable state and in the state every call leaves (successful, rejected,
\* or with an allocation failing at any of its fallible steps; copy
\* construction and assignment with their clones included), each index entry
\* designates exactly one node of the same data_t's list, each node's key
\* pointer resolves to its own key in the same data_t's index, and no key
\* occurs twice.
C12_Bijection ==
    /\ \A s \in SnapIds : Owned(data, s) => Bijective(heap, s)
    /\ \A h \in Live :
          /\ AllEdits(h, AllBijective)
          /\ \A c \in Handles \ Live : \A f \in CopyFails(h) :
                AllBijective(copy_construct(c, h, f))
          /\ \A t \in Live : \A f \in CopyFails(h) :
                AllBijective(copy_assign(t, h, f))

\* a binder holds a clone with entries made by copying a flagged binder, and
\* the index.emplace of an insert_front on it throws after the node was linked
C12_Witness ==
    \E h, g \in Live, k \in Keys :
       /\ h # g /\ unsharable[g] /\ size(g) > 0
       /\ data[h] # 0 /\ data[h] # data[g] /\ View(h) = View(g)
       /\ insert_front(h, k, 1, 2).res = "bad_alloc"
       /\ remove_key(h, k, 0).res = "Key not found"

----------------------------------------------------------------------------
(* C13 *)

\* C13: empty iteration.  For every binder, cbegin() == cend() exactly when
\* size() == 0, whether it holds no data_t (both are the no-data iterator) or
\* a data_t whose nodes were all removed; and the no-data iterator of a binder
\* without data_t equals cbegin() and cend() of another binder exactly when
\* that one holds no data_t either.
C13_EmptyIteration ==
    \A h \in Live :
       /\ IterEq(cbegin(h), cend(h)) <=> (size(h) = 0)
       /\ data[h] = 0 =>
             /\ cbegin(h).null_data /\ cend(h).null_data
             /\ \A g \in Live :
                   /\ IterEq(cbegin(h), cbegin(g)) <=> (data[g] = 0)
                   /\ IterEq(cbegin(h), cend(g)) <=> (data[g] = 0)
                   /\ IterEq(cend(g), cend(h)) <=> (data[g] = 0)

\* one binder holds no data_t and another holds a data_t emptied by removals:
\* each has cbegin() == cend(), and their iterators differ
C13_Witness ==
    \E h, g \in Live :
       /\ data[h] = 0 /\ data[g] # 0 /\ size(g) = 0
       /\ IterEq(cbegin(h), cend(h)) /\ IterEq(cbegin(g), cend(g))
       /\ ~IterEq(cbegin(h), cbegin(g))

=============================================================================
